---- MODULE Spec2Model ----
(***************************************************************************)
(* The two Pulumi programs of the repository, __main__.py (VPC, subnets,   *)
(* EKS cluster, IAM role, namespace, service account, Helm chart) and      *)
(* vpc.py (VPC, subnets, security group), as one state machine.  A program *)
(* is a script evaluated once from top to bottom: pc is the position in    *)
(* the script, the other variables are the resources declared so far.      *)
(***************************************************************************)
EXTENDS Integers, Sequences, FiniteSets, TLC

VARIABLES
    prog,                 \* which script is being evaluated: "main" or "vpc"
    pc,                   \* position in the script
    avail_zones,          \* __main__.py: avail_zones
    public_subnet_cidrs,  \* __main__.py: public_subnet_cidrs
    zones,                \* vpc.py: zones
    vpc,                  \* the declared Vpc (or Nil)
    route_table,          \* the declared RouteTable (or Nil)
    subnets,              \* the declared Subnet resources, in declaration order
    rtas,                 \* the declared RouteTableAssociation resources
    subnet_ids,           \* public_subnet_ids (__main__.py) / subnet_ids (vpc.py)
    cluster,              \* the declared eks.Cluster (or Nil)
    iam_role,             \* the declared aws.iam.Role (or Nil)
    iam_policy,           \* the declared aws.iam.Policy and its attachment (or Nil)
    namespace,            \* the declared k8s Namespace (or Nil)
    service_account,      \* the declared k8s ServiceAccount (or Nil)
    chart,                \* the ChartOpts of the Helm chart "lb" (or Nil)
    rendered,             \* the objects the chart rendered, before transformation
    objs,                 \* the same objects, as the transformations leave them
    applied,              \* how many objects remove_status has been called on
    security_group        \* vpc.py: the declared SecurityGroup (or Nil)

vars == <<prog, pc, avail_zones, public_subnet_cidrs, zones, vpc, route_table,
          subnets, rtas, subnet_ids, cluster, iam_role, iam_policy, namespace,
          service_account, chart, rendered, objs, applied, security_group>>

\* The value of a name no resource has been bound to yet (Python's None).
Nil == [ none |-> TRUE ]

\* ------------------------------------------------------------------ bounds

MaxZones == 2       \* longest avail_zones list tried for __main__.py
MaxCidrs == 2       \* longest public_subnet_cidrs list tried for __main__.py
MaxObjs == 2        \* most objects a rendered chart holds
MaxVpcZones == 257  \* longest zones list tried for vpc.py
SmallVpcZones == 3  \* vpc.py zone lists of every length up to this are tried

\* --------------------------------------------------------------- helpers

Min(a, b) == IF a <= b THEN a ELSE b

RECURSIVE Pow2(_)
Pow2(n) == IF n = 0 THEN 1 ELSE 2 * Pow2(n - 1)

\* All sequences without repetition over S of length at most n.
InjSeqs(S, n) ==
    UNION { { s \in [1..k -> S] : \A i, j \in 1..k : i # j => s[i] # s[j] } : k \in 0..n }

\* A Python dict display {k1: v1, k2: v2, ...}: a later entry with the same
\* key replaces the earlier one.
DictLiteral(pairs) ==
    [ key \in { pairs[i][1] : i \in DOMAIN pairs } |->
        LET last == CHOOSE i \in DOMAIN pairs :
                        /\ pairs[i][1] = key
                        /\ \A j \in DOMAIN pairs : pairs[j][1] = key => j <= i
        IN  pairs[last][2] ]

\* The provider-assigned id of the resource with the given logical name.
ResourceId(name) == "id:" \o name

\* The provider-assigned ARN of the resource with the given logical name.
ResourceArn(name) == "arn:" \o name

\* ----------------------------------------------------------- CIDR blocks
\* A CIDR block "a.b.c.d/p" is the tuple <<a, b, c, d, p>>.  Addresses are
\* pairs <<high 16 bits, low 16 bits>>, compared lexicographically.

Cidr(a, b, c, d, p) == <<a, b, c, d, p>>

ValidCidr(x) ==
    /\ \A i \in 1..4 : x[i] \in 0..255
    /\ x[5] \in 0..32

CidrFirst(x) ==
    LET hi == x[1] * 256 + x[2]
        lo == x[3] * 256 + x[4]
    IN  IF x[5] >= 16
        THEN <<hi, lo - (lo % Pow2(32 - x[5]))>>
        ELSE <<hi - (hi % Pow2(16 - x[5])), 0>>

CidrLast(x) ==
    LET f == CidrFirst(x)
    IN  IF x[5] >= 16
        THEN <<f[1], f[2] + Pow2(32 - x[5]) - 1>>
        ELSE <<f[1] + Pow2(16 - x[5]) - 1, 65535>>

AddrLeq(p, q) == p[1] < q[1] \/ (p[1] = q[1] /\ p[2] <= q[2])

CidrInside(x, y) ==
    /\ ValidCidr(x) /\ ValidCidr(y)
    /\ AddrLeq(CidrFirst(y), CidrFirst(x))
    /\ AddrLeq(CidrLast(x), CidrLast(y))

CidrOverlap(x, y) ==
    /\ AddrLeq(CidrFirst(x), CidrLast(y))
    /\ AddrLeq(CidrFirst(y), CidrLast(x))

\* ------------------------------------------------- program constants

cluster_name == "eks-demo"
cluster_tag == "kubernetes.io/cluster/" \o cluster_name

ConfiguredCidrs == << Cidr(172, 32, 0, 0, 20), Cidr(172, 32, 16, 0, 20) >>
VpcCidr == Cidr(172, 32, 0, 0, 16)

aws_lb_ns == "aws-lb-controller"
service_account_name ==
    "system:serviceaccount:" \o aws_lb_ns \o ":aws-lb-controller-serviceaccount"

\* ------------------------------------------------------------- inputs

ZonePool == { "ap-northeast-2a", "ap-northeast-2b", "ap-northeast-2c" }
\* The two configured blocks, and a block that overlaps the first of them.
CidrPool == { Cidr(172, 32, 0, 0, 20), Cidr(172, 32, 16, 0, 20), Cidr(172, 32, 8, 0, 21) }

ZoneLists == InjSeqs(ZonePool, MaxZones)
CidrLists == InjSeqs(CidrPool, MaxCidrs)

\* vpc.py zone lists: n distinct zone names, for every small n and for the
\* three longest lengths.
VpcZoneLengths ==
    (0..SmallVpcZones) \cup { n \in (MaxVpcZones - 2)..MaxVpcZones : n >= 0 }
VpcZoneLists == { [ i \in 1..n |-> "zone-" \o ToString(i) ] : n \in VpcZoneLengths }


OidcProviders ==
    { [arn |-> a, url |-> u] :
        a \in { "arn:aws:iam::111:oidc-provider/oidc.eks/id/A",
                "arn:aws:iam::222:oidc-provider/oidc.eks/id/B" },
        u \in { "oidc.eks/id/A", "oidc.eks/id/B" } }

StackNames == { "dev" }

\* The objects a rendered chart may hold: every object has metadata, and may
\* or may not have a kind and a status.
ObjectPool ==
    { [ f \in D |-> CASE f = "kind" -> k
                      [] f = "status" -> "conditions"
                      [] OTHER -> "meta" ] :
        D \in { {"metadata"} \cup E : E \in SUBSET {"kind", "status"} },
        k \in { "CustomResourceDefinition", "Deployment" } }

ObjectLists == UNION { [1..n -> ObjectPool] : n \in 0..MaxObjs }

\* ------------------------------------------------------- __main__.py

\* aws.ec2.Vpc("eks-vpc", ...)
MainVpc ==
    [ name |-> "eks-vpc", id |-> ResourceId("eks-vpc"), cidr_block |-> VpcCidr,
      tags |-> DictLiteral(<< <<"Name", "eks-vpc">> >>) ]

\* aws.ec2.RouteTable("eks-route-table", ...), routed through the gateway "eks-igw"
MainRouteTable ==
    [ name |-> "eks-route-table", id |-> ResourceId("eks-route-table"),
      vpc_id |-> MainVpc.id,
      routes |-> << [cidr_block |-> Cidr(0, 0, 0, 0, 0), gateway_id |-> ResourceId("eks-igw")] >>,
      tags |-> DictLiteral(<< <<"Name", "eks-rt">> >>) ]

\* The tags display of a public subnet.
PublicSubnetTags(zone) ==
    DictLiteral(<< <<"Name", "eks-public-subnet-" \o zone>>,
                   <<cluster_tag, "owned">>,
                   <<"kubernetes.io/role/elb", "1">>,
                   <<"kubernetes.io/cluster/" \o cluster_name, "owned">> >>)

\* aws.ec2.Subnet(f"eks-public-subnet-{zone}", ...)
PublicSubnet(zone, public_subnet_cidr) ==
    [ name |-> "eks-public-subnet-" \o zone,
      id |-> ResourceId("eks-public-subnet-" \o zone),
      assign_ipv6_address_on_creation |-> FALSE,
      vpc_id |-> MainVpc.id,
      map_public_ip_on_launch |-> TRUE,
      cidr_block |-> public_subnet_cidr,
      availability_zone |-> zone,
      tags |-> PublicSubnetTags(zone) ]

\* aws.ec2.RouteTableAssociation(f"eks-public-rta-{zone}", ...)
PublicRta(zone, subnet) ==
    [ name |-> "eks-public-rta-" \o zone,
      route_table_id |-> MainRouteTable.id,
      subnet_id |-> subnet.id ]

\* zip(avail_zones, public_subnet_cidrs) yields as many pairs as the shorter list.
ZipLen(xs, ys) == Min(Len(xs), Len(ys))

\* ClusterArgs with a node group whose desired capacity exceeds max_size.
ClusterArgsOversized(ids) ==
    [ name |-> cluster_name,
      vpc_id |-> MainVpc.id,
      instance_type |-> "t2.medium",
      desired_capacity |-> 3,
      min_size |-> 1,
      max_size |-> 2,
      public_subnet_ids |-> ids,
      create_oidc_provider |-> TRUE ]

\* The arguments of eks.Cluster(cluster_name, ...).
ClusterArgs(ids) ==
    [ name |-> cluster_name,
      vpc_id |-> MainVpc.id,
      instance_type |-> "t2.medium",
      desired_capacity |-> 2,
      min_size |-> 1,
      max_size |-> 2,
      public_subnet_ids |-> ids,
      create_oidc_provider |-> TRUE ]

\* The dict handed to json.dumps for the role's assume_role_policy, from the
\* resolved values args = [oidc_arn, oidc_url].
AssumeRolePolicy(args) ==
    [ Version |-> "2012-10-17",
      Statement |-> <<
        [ Effect |-> "Allow",
          Principal |-> [ Federated |-> args[1] ],
          Action |-> "sts:AssumeRoleWithWebIdentity",
          Condition |-> [ StringEquals |->
              DictLiteral(<< <<args[2] \o ":sub", service_account_name>> >>) ] ] >> ]

\* metadata of k8s.core.v1.Namespace(f"{aws_lb_ns}-ns", ...)
NamespaceMetadata ==
    [ name |-> aws_lb_ns,
      labels |-> DictLiteral(<< <<"app.kubernetes.io/name", "aws-load-balancer-controller">> >>) ]

\* ServiceAccountMetadata with the resource's logical name used as metadata.name.
ServiceAccountMetadataLogicalName(ns, role) ==
    [ name |-> "aws-lb-controller-sa",
      namespace |-> ns.metadata.name,
      annotations |-> DictLiteral(<< <<"eks.amazonaws.com/role-arn", role.arn>> >>) ]

\* metadata of k8s.core.v1.ServiceAccount("aws-lb-controller-sa", ...)
ServiceAccountMetadata(ns, role) ==
    [ name |-> "aws-lb-controller-serviceaccount",
      namespace |-> ns.metadata.name,
      annotations |-> DictLiteral(<< <<"eks.amazonaws.com/role-arn", role.arn>> >>) ]

\* ChartValues that lets the chart create its own service account.
ChartValuesCreatesAccount(cl, stack) ==
    DictLiteral(<<
        <<"region", "ap-northeast-2">>,
        <<"serviceAccount", [ name |-> "aws-lb-controller-serviceaccount", create |-> TRUE ]>>,
        <<"vpcId", cl.eks_cluster.vpc_config.vpc_id>>,
        <<"clusterName", cl.eks_cluster.name>>,
        <<"podLabels", [ stack |-> stack, app |-> "aws-lb-controller" ]>> >>)

\* The values dict of the chart.
ChartValues(cl, stack) ==
    DictLiteral(<<
        <<"region", "ap-northeast-2">>,
        <<"serviceAccount", [ name |-> "aws-lb-controller-serviceaccount", create |-> FALSE ]>>,
        <<"vpcId", cl.eks_cluster.vpc_config.vpc_id>>,
        <<"clusterName", cl.eks_cluster.name>>,
        <<"podLabels", [ stack |-> stack, app |-> "aws-lb-controller" ]>> >>)

\* ChartOpts that installs the chart into the default namespace.
ChartOptsDefaultNamespace(ns, cl, stack) ==
    [ chart |-> "aws-load-balancer-controller",
      version |-> "1.2.0",
      repo |-> "https://aws.github.io/eks-charts",
      namespace |-> "default",
      values |-> ChartValues(cl, stack),
      transformations |-> << "remove_status" >> ]

\* k8s.helm.v3.ChartOpts(...) of the chart "lb".
ChartOpts(ns, cl, stack) ==
    [ chart |-> "aws-load-balancer-controller",
      version |-> "1.2.0",
      repo |-> "https://aws.github.io/eks-charts",
      namespace |-> ns.metadata.name,
      values |-> ChartValues(cl, stack),
      transformations |-> << "remove_status" >> ]

\* remove_status that tests the kind but forgets the del.
remove_status_keeps(obj, opts) ==
    IF "kind" \notin DOMAIN obj
    THEN [ obj |-> obj, raised |-> "KeyError" ]
    ELSE IF obj["kind"] = "CustomResourceDefinition" /\ "status" \notin DOMAIN obj
         THEN [ obj |-> obj, raised |-> "KeyError" ]
         ELSE [ obj |-> obj, raised |-> "none" ]

\* remove_status without the test of the kind: del obj["status"] on every object.
remove_status_anykind(obj, opts) ==
    IF "status" \notin DOMAIN obj
    THEN [ obj |-> obj, raised |-> "KeyError" ]
    ELSE [ obj |-> [ f \in DOMAIN obj \ {"status"} |-> obj[f] ], raised |-> "none" ]

\* remove_status written with obj.get("kind") and obj.pop("status", None).
remove_status_guarded(obj, opts) ==
    IF "kind" \in DOMAIN obj /\ obj["kind"] = "CustomResourceDefinition"
    THEN [ obj |-> [ f \in DOMAIN obj \ {"status"} |-> obj[f] ], raised |-> "none" ]
    ELSE [ obj |-> obj, raised |-> "none" ]

\* def remove_status(obj, opts): the object as the call leaves it, and the
\* exception it raises ("none" when it returns normally).  obj["kind"] and
\* del obj["status"] raise KeyError on a missing key.
remove_status(obj, opts) ==
    IF "kind" \notin DOMAIN obj
    THEN [ obj |-> obj, raised |-> "KeyError" ]
    ELSE IF obj["kind"] = "CustomResourceDefinition"
         THEN IF "status" \notin DOMAIN obj
              THEN [ obj |-> obj, raised |-> "KeyError" ]
              ELSE [ obj |-> [ f \in DOMAIN obj \ {"status"} |-> obj[f] ],
                     raised |-> "none" ]
         ELSE [ obj |-> obj, raised |-> "none" ]

\* ------------------------------------------------------------ vpc.py

\* ec2.Vpc('eks-vpc', ...)
VpcPyVpc ==
    [ name |-> "eks-vpc", id |-> ResourceId("eks-vpc"), cidr_block |-> VpcCidr,
      tags |-> DictLiteral(<< <<"Name", "eks-vpc">> >>) ]

\* ec2.RouteTable('vpc-route-table', ...), routed through the gateway 'vpc-ig'
VpcPyRouteTable ==
    [ name |-> "vpc-route-table", id |-> ResourceId("vpc-route-table"),
      vpc_id |-> VpcPyVpc.id,
      routes |-> << [cidr_block |-> Cidr(0, 0, 0, 0, 0), gateway_id |-> ResourceId("vpc-ig")] >>,
      tags |-> DictLiteral(<< <<"Name", "vpc-rt">> >>) ]

\* VpcSubnetCidr with the counter in the last octet instead of the third.
VpcSubnetCidrLastOctet(ids) == Cidr(172, 32, 0, Len(ids), 24)

\* f'172.32.{len(subnet_ids)}.0/24'
VpcSubnetCidr(ids) == Cidr(172, 32, Len(ids), 0, 24)

\* ec2.Subnet(f'vpc-subnet-{zone}', ...)
VpcSubnet(zone, ids) ==
    [ name |-> "vpc-subnet-" \o zone,
      id |-> ResourceId("vpc-subnet-" \o zone),
      assign_ipv6_address_on_creation |-> FALSE,
      vpc_id |-> VpcPyVpc.id,
      map_public_ip_on_launch |-> TRUE,
      cidr_block |-> VpcSubnetCidr(ids),
      availability_zone |-> zone,
      tags |-> DictLiteral(<< <<"Name", "sn-" \o zone>> >>) ]

\* ec2.RouteTableAssociation(f'vpc-route-table-assoc-{zone}', ...)
VpcRta(zone, subnet) ==
    [ name |-> "vpc-route-table-assoc-" \o zone,
      route_table_id |-> VpcPyRouteTable.id,
      subnet_id |-> subnet.id ]

\* ec2.SecurityGroup('eks-cluster-sg', ...)
EksSecurityGroup ==
    [ name |-> "eks-cluster-sg", vpc_id |-> VpcPyVpc.id,
      ingress |-> << [cidr_blocks |-> <<Cidr(0, 0, 0, 0, 0)>>, from_port |-> 443,
                      to_port |-> 443, protocol |-> "tcp"],
                     [cidr_blocks |-> <<Cidr(0, 0, 0, 0, 0)>>, from_port |-> 80,
                      to_port |-> 80, protocol |-> "tcp"] >> ]

\* ------------------------------------------------------- state machine

Init ==
    /\ prog \in { "main", "vpc" }
    /\ pc = "network"
    /\ avail_zones \in (IF prog = "main" THEN ZoneLists ELSE { <<>> })
    /\ public_subnet_cidrs \in (IF prog = "main" THEN CidrLists ELSE { <<>> })
    /\ zones \in (IF prog = "vpc" THEN VpcZoneLists ELSE { <<>> })
    /\ vpc = Nil
    /\ route_table = Nil
    /\ subnets = <<>>
    /\ rtas = <<>>
    /\ subnet_ids = <<>>
    /\ cluster = Nil
    /\ iam_role = Nil
    /\ iam_policy = Nil
    /\ namespace = Nil
    /\ service_account = Nil
    /\ chart = Nil
    /\ rendered = <<>>
    /\ objs = <<>>
    /\ applied = 0
    /\ security_group = Nil

\* __main__.py: the Vpc, the InternetGateway and the RouteTable; public_subnet_ids = [].
MainNetwork ==
    /\ prog = "main" /\ pc = "network"
    /\ vpc' = MainVpc
    /\ route_table' = MainRouteTable
    /\ subnet_ids' = <<>>
    /\ pc' = "subnets"
    /\ UNCHANGED <<prog, avail_zones, public_subnet_cidrs, zones, subnets, rtas,
                   cluster, iam_role, iam_policy, namespace, service_account,
                   chart, rendered, objs, applied, security_group>>

\* __main__.py: one iteration of
\* for zone, public_subnet_cidr in zip(avail_zones, public_subnet_cidrs).
MainSubnetLoop ==
    /\ prog = "main" /\ pc = "subnets"
    /\ Len(subnets) < ZipLen(avail_zones, public_subnet_cidrs)
    /\ LET zone == avail_zones[Len(subnets) + 1]
           public_subnet_cidr == public_subnet_cidrs[Len(subnets) + 1]
           public_subnet == PublicSubnet(zone, public_subnet_cidr)
       IN  /\ subnets' = Append(subnets, public_subnet)
           /\ rtas' = Append(rtas, PublicRta(zone, public_subnet))
           /\ subnet_ids' = Append(subnet_ids, public_subnet.id)
    /\ UNCHANGED <<prog, pc, avail_zones, public_subnet_cidrs, zones, vpc, route_table,
                   cluster, iam_role, iam_policy, namespace, service_account,
                   chart, rendered, objs, applied, security_group>>

\* __main__.py: the loop is exhausted; eks.Cluster(...) is declared and its
\* OIDC provider, created when create_oidc_provider is set, resolves.
MainCluster ==
    /\ prog = "main" /\ pc = "subnets"
    /\ Len(subnets) = ZipLen(avail_zones, public_subnet_cidrs)
    /\ \E p \in OidcProviders :
         LET args == ClusterArgs(subnet_ids)
         IN  cluster' =
               [ args |-> args,
                 kubeconfig |-> "kubeconfig:" \o args.name,
                 eks_cluster |-> [ name |-> args.name,
                                   vpc_config |-> [ vpc_id |-> args.vpc_id ] ],
                 core |-> [ oidc_provider |->
                              IF args.create_oidc_provider THEN p ELSE Nil ] ]
    /\ pc' = "iam_role"
    /\ UNCHANGED <<prog, avail_zones, public_subnet_cidrs, zones, vpc, route_table,
                   subnets, rtas, subnet_ids, iam_role, iam_policy, namespace,
                   service_account, chart, rendered, objs, applied, security_group>>

\* __main__.py: oidc_arn, oidc_url and aws.iam.Role(...).  Reading .arn of a
\* provider that was not created raises, and the program stops.
MainIamRole ==
    /\ prog = "main" /\ pc = "iam_role"
    /\ IF cluster.core.oidc_provider = Nil
       THEN /\ pc' = "failed"
            /\ UNCHANGED iam_role
       ELSE /\ LET oidc_arn == cluster.core.oidc_provider.arn
                   oidc_url == cluster.core.oidc_provider.url
               IN  iam_role' =
                     [ name |-> "aws-loadbalancer-controller-role",
                       arn |-> ResourceArn("aws-loadbalancer-controller-role"),
                       assume_role_policy |-> AssumeRolePolicy(<<oidc_arn, oidc_url>>) ]
            /\ pc' = "iam_policy"
    /\ UNCHANGED <<prog, avail_zones, public_subnet_cidrs, zones, vpc, route_table,
                   subnets, rtas, subnet_ids, cluster, iam_policy, namespace,
                   service_account, chart, rendered, objs, applied, security_group>>

\* __main__.py: files/iam_policy.json is read (open raises when it is
\* missing), then aws.iam.Policy(...) and aws.iam.PolicyAttachment(...).
MainIamPolicy ==
    /\ prog = "main" /\ pc = "iam_policy"
    /\ \E readable \in BOOLEAN :
         IF readable
         THEN /\ iam_policy' =
                   [ name |-> "aws-loadbalancer-controller-policy",
                     policy |-> "files/iam_policy.json",
                     attachment |-> [ policy_arn |-> ResourceArn("aws-loadbalancer-controller-policy"),
                                      roles |-> << iam_role.name >> ] ]
              /\ pc' = "namespace"
         ELSE /\ pc' = "failed"
              /\ UNCHANGED iam_policy
    /\ UNCHANGED <<prog, avail_zones, public_subnet_cidrs, zones, vpc, route_table,
                   subnets, rtas, subnet_ids, cluster, iam_role, namespace,
                   service_account, chart, rendered, objs, applied, security_group>>

\* __main__.py: k8s.Provider("provider", ...) and k8s.core.v1.Namespace(...).
MainNamespace ==
    /\ prog = "main" /\ pc = "namespace"
    /\ namespace' = [ name |-> aws_lb_ns \o "-ns", metadata |-> NamespaceMetadata,
                      provider |-> [ kubeconfig |-> cluster.kubeconfig ] ]
    /\ pc' = "service_account"
    /\ UNCHANGED <<prog, avail_zones, public_subnet_cidrs, zones, vpc, route_table,
                   subnets, rtas, subnet_ids, cluster, iam_role, iam_policy,
                   service_account, chart, rendered, objs, applied, security_group>>

\* __main__.py: k8s.core.v1.ServiceAccount("aws-lb-controller-sa", ...).
MainServiceAccount ==
    /\ prog = "main" /\ pc = "service_account"
    /\ service_account' = [ name |-> "aws-lb-controller-sa",
                            metadata |-> ServiceAccountMetadata(namespace, iam_role) ]
    /\ pc' = "chart"
    /\ UNCHANGED <<prog, avail_zones, public_subnet_cidrs, zones, vpc, route_table,
                   subnets, rtas, subnet_ids, cluster, iam_role, iam_policy,
                   namespace, chart, rendered, objs, applied, security_group>>

\* __main__.py: k8s.helm.v3.Chart("lb", ChartOpts(...)); the chart renders
\* its objects.
MainChart ==
    /\ prog = "main" /\ pc = "chart"
    /\ \E stack \in StackNames : chart' = ChartOpts(namespace, cluster, stack)
    /\ \E os \in ObjectLists : rendered' = os /\ objs' = os
    /\ applied' = 0
    /\ pc' = "transform"
    /\ UNCHANGED <<prog, avail_zones, public_subnet_cidrs, zones, vpc, route_table,
                   subnets, rtas, subnet_ids, cluster, iam_role, iam_policy,
                   namespace, service_account, security_group>>

\* The chart calls its transformations, [remove_status], on the next rendered
\* object.  An exception raised by the transformation stops the program.
MainTransform ==
    /\ prog = "main" /\ pc = "transform"
    /\ applied < Len(objs)
    /\ LET r == remove_status(objs[applied + 1], chart)
       IN  /\ objs' = [objs EXCEPT ![applied + 1] = r.obj]
           /\ IF r.raised = "none"
              THEN applied' = applied + 1 /\ pc' = pc
              ELSE applied' = applied /\ pc' = "failed"
    /\ UNCHANGED <<prog, avail_zones, public_subnet_cidrs, zones, vpc, route_table,
                   subnets, rtas, subnet_ids, cluster, iam_role, iam_policy,
                   namespace, service_account, chart, rendered, security_group>>

\* Every rendered object has been transformed: the program ends.
MainDone ==
    /\ prog = "main" /\ pc = "transform"
    /\ applied = Len(objs)
    /\ pc' = "done"
    /\ UNCHANGED <<prog, avail_zones, public_subnet_cidrs, zones, vpc, route_table,
                   subnets, rtas, subnet_ids, cluster, iam_role, iam_policy,
                   namespace, service_account, chart, rendered, objs, applied,
                   security_group>>

\* vpc.py: the Vpc, the InternetGateway and the RouteTable; subnet_ids = [].
VpcNetwork ==
    /\ prog = "vpc" /\ pc = "network"
    /\ vpc' = VpcPyVpc
    /\ route_table' = VpcPyRouteTable
    /\ subnet_ids' = <<>>
    /\ pc' = "subnets"
    /\ UNCHANGED <<prog, avail_zones, public_subnet_cidrs, zones, subnets, rtas,
                   cluster, iam_role, iam_policy, namespace, service_account,
                   chart, rendered, objs, applied, security_group>>

\* vpc.py: one iteration of for zone in zones.
VpcSubnetLoop ==
    /\ prog = "vpc" /\ pc = "subnets"
    /\ Len(subnets) < Len(zones)
    /\ LET zone == zones[Len(subnets) + 1]
           vpc_subnet == VpcSubnet(zone, subnet_ids)
       IN  /\ subnets' = Append(subnets, vpc_subnet)
           /\ rtas' = Append(rtas, VpcRta(zone, vpc_subnet))
           /\ subnet_ids' = Append(subnet_ids, vpc_subnet.id)
    /\ UNCHANGED <<prog, pc, avail_zones, public_subnet_cidrs, zones, vpc, route_table,
                   cluster, iam_role, iam_policy, namespace, service_account,
                   chart, rendered, objs, applied, security_group>>

\* vpc.py: the loop is exhausted; ec2.SecurityGroup(...) ends the module.
VpcSecurityGroup ==
    /\ prog = "vpc" /\ pc = "subnets"
    /\ Len(subnets) = Len(zones)
    /\ security_group' = EksSecurityGroup
    /\ pc' = "done"
    /\ UNCHANGED <<prog, avail_zones, public_subnet_cidrs, zones, vpc, route_table,
                   subnets, rtas, subnet_ids, cluster, iam_role, iam_policy,
                   namespace, service_account, chart, rendered, objs, applied>>

Next ==
    \/ MainNetwork
    \/ MainSubnetLoop
    \/ MainCluster
    \/ MainIamRole
    \/ MainIamPolicy
    \/ MainNamespace
    \/ MainServiceAccount
    \/ MainChart
    \/ MainTransform
    \/ MainDone
    \/ VpcNetwork
    \/ VpcSubnetLoop
    \/ VpcSecurityGroup

Spec == Init /\ [][Next]_vars

\* ------------------------------------------------------------ properties

IsCrd(o) == "kind" \in DOMAIN o /\ o["kind"] = "CustomResourceDefinition"
HasOtherKind(o) == "kind" \in DOMAIN o /\ o["kind"] # "CustomResourceDefinition"

\* The subnet loop of the running program has ended.
LoopEnded == pc \notin { "network", "subnets" }

\* The zone list the running program iterates over.
ZoneList == IF prog = "main" THEN avail_zones ELSE zones

\* A transformation raised and stopped the program.
TransformFailed == pc = "failed" /\ chart # Nil

\* The subject condition of the role's trust policy: the value stored under
\* "<oidc_url>:sub".
TrustSubject ==
    iam_role.assume_role_policy.Statement[1].Condition.StringEquals[
        cluster.core.oidc_provider.url \o ":sub"]

\* C1: every rendered CustomResourceDefinition that had a status field is,
\* once remove_status has been called on it, the same object without the
\* status field (no other field added, removed or changed); and when the
\* chart has transformed all its objects, no CustomResourceDefinition among
\* them has a status field.
C1_CrdStatusRemoved ==
    /\ \A j \in 1..applied :
         (IsCrd(rendered[j]) /\ "status" \in DOMAIN rendered[j]) =>
            /\ DOMAIN objs[j] = DOMAIN rendered[j] \ {"status"}
            /\ \A f \in DOMAIN objs[j] : objs[j][f] = rendered[j][f]
    /\ pc = "done" =>
         \A j \in 1..Len(objs) : IsCrd(objs[j]) => "status" \notin DOMAIN objs[j]

C1_Witness ==
    /\ pc = "done"
    /\ \E j \in 1..Len(rendered) : IsCrd(rendered[j]) /\ "status" \in DOMAIN rendered[j]

\* C2: an object whose kind is not "CustomResourceDefinition" is left exactly
\* as it was rendered by remove_status, its status field included, and the
\* call on it never raises.
C2_OtherKindsUntouched ==
    /\ \A j \in 1..applied : HasOtherKind(rendered[j]) => objs[j] = rendered[j]
    /\ TransformFailed => ~HasOtherKind(rendered[applied + 1])

C2_Witness ==
    \E j \in 1..applied :
        /\ HasOtherKind(rendered[j])
        /\ "status" \in DOMAIN rendered[j]
        /\ "status" \in DOMAIN objs[j]

\* C3 (as claimed): once the subnet loop has ended, the tag map of every
\* declared subnet holds, besides Name, three discovery-tag entries:
\* cluster_tag -> "owned", "kubernetes.io/role/elb" -> "1" and
\* "kubernetes.io/cluster/<cluster_name>" -> "owned".
C3_ThreeDiscoveryTags ==
    LoopEnded =>
        \A i \in 1..Len(subnets) :
            LET tags == subnets[i].tags
            IN  /\ "Name" \in DOMAIN tags
                /\ Cardinality(DOMAIN tags \ {"Name"}) = 3
                /\ cluster_tag \in DOMAIN tags /\ tags[cluster_tag] = "owned"
                /\ "kubernetes.io/role/elb" \in DOMAIN tags
                /\ tags["kubernetes.io/role/elb"] = "1"
                /\ ("kubernetes.io/cluster/" \o cluster_name) \in DOMAIN tags
                /\ tags["kubernetes.io/cluster/" \o cluster_name] = "owned"

\* C4: the value of the "<oidc_url>:sub" StringEquals condition of the role's
\* trust policy is the literal
\* "system:serviceaccount:aws-lb-controller:aws-lb-controller-serviceaccount",
\* whatever the OIDC provider resolved to, and it is "system:serviceaccount:"
\* + namespace + ":" + name of the declared ServiceAccount.
C4_TrustSubjectIsServiceAccount ==
    iam_role # Nil =>
        LET cond == iam_role.assume_role_policy.Statement[1].Condition.StringEquals
        IN  /\ DOMAIN cond = { cluster.core.oidc_provider.url \o ":sub" }
            /\ TrustSubject =
                 "system:serviceaccount:aws-lb-controller:aws-lb-controller-serviceaccount"
            /\ service_account # Nil =>
                 TrustSubject = "system:serviceaccount:"
                                   \o service_account.metadata.namespace
                                   \o ":" \o service_account.metadata.name

C4_Witness ==
    /\ iam_role # Nil
    /\ service_account # Nil
    /\ cluster.core.oidc_provider.url = "oidc.eks/id/B"

\* C5 (as claimed): the Helm values object of the chart has a namespace
\* field, and it equals the metadata.name of the Namespace.
C5_ValuesHaveNamespace ==
    chart # Nil =>
        /\ "namespace" \in DOMAIN chart.values
        /\ chart.values["namespace"] = namespace.metadata.name

\* C5 (amended): the namespace argument of the chart's ChartOpts, which is not
\* part of the Helm values object, equals the metadata.name of the Namespace,
\* "aws-lb-controller"; the values object has no namespace field.
C5_ChartNamespaceIsNamespaceName ==
    chart # Nil =>
        /\ chart.namespace = namespace.metadata.name
        /\ chart.namespace = "aws-lb-controller"
        /\ "namespace" \notin DOMAIN chart.values

C5_Witness == chart # Nil /\ namespace # Nil /\ pc = "transform"

C7_ClusterSizedWithOidc ==
    cluster # Nil =>
        /\ 1 <= cluster.args.min_size
        /\ cluster.args.min_size <= cluster.args.desired_capacity
        /\ cluster.args.desired_capacity <= cluster.args.max_size
        /\ cluster.args.create_oidc_provider
        /\ cluster.core.oidc_provider \in OidcProviders
        /\ pc # "iam_role" => (iam_role # Nil)
        /\ iam_role # Nil =>
             /\ iam_role.assume_role_policy.Statement[1].Principal.Federated
                  = cluster.core.oidc_provider.arn
             /\ (cluster.core.oidc_provider.url \o ":sub") \in
                  DOMAIN iam_role.assume_role_policy.Statement[1].Condition.StringEquals

C7_Witness ==
    /\ cluster # Nil /\ iam_role # Nil
    /\ cluster.core.oidc_provider.arn = "arn:aws:iam::222:oidc-provider/oidc.eks/id/B"

\* C8: remove_status raises KeyError, leaving the object as it was, on an
\* object without a kind field and on a CustomResourceDefinition without a
\* status field, so such an object is never transformed and stops the
\* program; and a second call on a CustomResourceDefinition that has been
\* transformed raises KeyError too and leaves it unchanged.
C8_MissingKeyRaises ==
    /\ \A j \in 1..applied :
         /\ "kind" \in DOMAIN rendered[j]
         /\ IsCrd(rendered[j]) => "status" \in DOMAIN rendered[j]
    /\ pc = "done" => applied = Len(objs)
    /\ TransformFailed =>
         /\ applied < Len(objs)
         /\ objs[applied + 1] = rendered[applied + 1]
         /\ \/ "kind" \notin DOMAIN rendered[applied + 1]
            \/ IsCrd(rendered[applied + 1]) /\ "status" \notin DOMAIN rendered[applied + 1]
    /\ \A j \in 1..applied :
         IsCrd(objs[j]) =>
            /\ remove_status(objs[j], chart).raised = "KeyError"
            /\ remove_status(objs[j], chart).obj = objs[j]

C8_Witness ==
    /\ TransformFailed
    /\ applied = 1
    /\ IsCrd(rendered[1])
    /\ IsCrd(rendered[2]) /\ "status" \notin DOMAIN rendered[2]

\* C9: the chart uses the service account that carries the role: the chart
\* value serviceAccount.name is the ServiceAccount's metadata.name
\* ("aws-lb-controller-serviceaccount"), serviceAccount.create is False, the
\* chart's namespace is the ServiceAccount's namespace, and the
\* ServiceAccount's "eks.amazonaws.com/role-arn" annotation is the ARN of the
\* role whose trust policy names that service account.
C9_ChartUsesAnnotatedAccount ==
    chart # Nil =>
        /\ chart.values["serviceAccount"].name = service_account.metadata.name
        /\ service_account.metadata.name = "aws-lb-controller-serviceaccount"
        /\ chart.values["serviceAccount"].create = FALSE
        /\ chart.namespace = service_account.metadata.namespace
        /\ service_account.metadata.annotations["eks.amazonaws.com/role-arn"] = iam_role.arn
        /\ TrustSubject = "system:serviceaccount:" \o chart.namespace
                             \o ":" \o chart.values["serviceAccount"].name

C9_Witness == chart # Nil /\ service_account # Nil /\ pc = "done"

\* The CIDR blocks of the declared subnets lie inside the VPC's block and do
\* not overlap one another.
SubnetCidrsDisjointInVpc ==
    /\ \A i \in 1..Len(subnets) : CidrInside(subnets[i].cidr_block, vpc.cidr_block)
    /\ \A i \in 1..Len(subnets) : \A j \in (i + 1)..Len(subnets) :
         ~CidrOverlap(subnets[i].cidr_block, subnets[j].cidr_block)

\* C10: once the subnet loop has ended, the subnets' CIDR blocks are pairwise
\* non-overlapping and inside the VPC block 172.32.0.0/16: in __main__.py with
\* the two configured /20 blocks, and in vpc.py, where the i-th subnet (from
\* 0) has the block 172.32.i.0/24, for every zone list of at most 256 zones.
C10_SubnetCidrsDisjoint ==
    /\ (LoopEnded /\ prog = "main" /\ public_subnet_cidrs = ConfiguredCidrs) =>
          /\ vpc.cidr_block = Cidr(172, 32, 0, 0, 16)
          /\ SubnetCidrsDisjointInVpc
    /\ (LoopEnded /\ prog = "vpc" /\ Len(zones) <= 256) =>
          /\ vpc.cidr_block = Cidr(172, 32, 0, 0, 16)
          /\ \A i \in 1..Len(subnets) : subnets[i].cidr_block = Cidr(172, 32, i - 1, 0, 24)
          /\ SubnetCidrsDisjointInVpc

C10_Witness ==
    /\ pc = "done" /\ prog = "vpc"
    /\ Len(zones) = 256 /\ Len(subnets) = 256

====
